---- MODULE Spec2Model ----
(***************************************************************************)
(* Model of nectarflower-rs (src/src/lib.rs): a Hive JSON-RPC client with  *)
(* a node registry (nodes, failing_nodes), a sequential fail-over          *)
(* dispatcher (call / call_node) and node discovery from account metadata  *)
(* (get_nodes_from_account / update_nodes_from_account).                   *)
(*                                                                         *)
(* Error messages are Rust Strings built with format!; they are modelled   *)
(* as sequences of string fragments, so that format!("X: {e}") is          *)
(* <<"X: ">> \o e (quote characters inside messages are left out).       *)
(* JSON documents are modelled by their syntax tree, with a distinguished  *)
(* shape for text that does not parse.                                     *)
(***************************************************************************)
EXTENDS Integers, Sequences, FiniteSets, TLC

\* ------------------------------------------------------------------ bounds
\* Longest candidate list handed to set_nodes.
MaxCand == 2

\* ------------------------------------------------------------ the universe
DefaultNode == "https://api.hive.blog"

\* Strings offered to set_nodes as endpoints; the last one is not a URL.
Urls == {"https://a", "https://b", "not a url"}

\* url::Url::parse(node).is_ok(): an absolute URL with a scheme parses, a
\* string without a scheme is rejected (RelativeUrlWithoutBase).
UrlParseOk(node) == node \in {DefaultNode, "https://a", "https://b"}

Reasons == {"down", "timeout"}

EmptyMap == [x \in {} |-> "down"]

\* HashMap<String, String> values used as failing-node maps.
FailKeys == {"https://a", "https://b"}
FailMaps == UNION {[S -> Reasons] : S \in SUBSET FailKeys}

RECURSIVE SeqsUpTo(_, _)
SeqsUpTo(S, n) ==
    IF n = 0 THEN {<<>>}
    ELSE LET shorter == SeqsUpTo(S, n - 1)
         IN  shorter \cup {Append(s, x) : s \in {t \in shorter : Len(t) = n - 1}, x \in S}

Candidates == SeqsUpTo(Urls, MaxCand)

AccountNames == {"nectarflower", "alice"}

\* ------------------------------------------------------------ the registry
\* Client::new
New == [nodes |-> <<DefaultNode>>, failing_nodes |-> EmptyMap]

\* Variant: the closure forgets the failing map.
KeepNodeIgnoringFailing(node, failing) == UrlParseOk(node)

\* The filter closure of set_nodes.
KeepNode(node, failing) == ~(node \in DOMAIN failing) /\ UrlParseOk(node)

\* Variant: the filter also drops an entry equal to the one before it.
FilterNodesDedup(cands, failing) ==
    LET kept == SelectSeq(cands, LAMBDA node : KeepNode(node, failing))
    IN  SelectSeq([j \in 1..Len(kept) |->
                      IF j > 1 /\ kept[j] = kept[j - 1] THEN "" ELSE kept[j]],
                  LAMBDA node : node # "")

\* nodes.into_iter().filter(..).collect()
FilterNodes(cands, failing) ==
    LET keep(node) == KeepNode(node, failing)
    IN  SelectSeq(cands, keep)

\* Variant: a candidate that is not a URL is recorded as failing.
set_nodes_recording(cands, failing) ==
    [nodes |-> FilterNodes(cands, failing),
     failing_nodes |->
        [n \in DOMAIN failing
                 \cup {cands[j] : j \in {h \in 1..Len(cands) : ~UrlParseOk(cands[h])}} |->
            IF n \in DOMAIN failing THEN failing[n] ELSE "invalid url"]]

\* Client::set_nodes: the registry it installs.
set_nodes(cands, failing) ==
    [nodes |-> FilterNodes(cands, failing), failing_nodes |-> failing]

\* ------------------------------------------------------------------ values
\* Result<T, String>
Ok(v) == [ok |-> TRUE, val |-> v, err |-> <<>>]
Err(e) == [ok |-> FALSE, val |-> [k |-> "none"], err |-> e]

\* Option<T>
None == [k |-> "none"]
Some(v) == [k |-> "some", v |-> v]

\* A JSON member that is omitted, and one whose value is null.
Absent == [k |-> "absent"]
Null == [k |-> "null"]

\* ()
Unit == [k |-> "unit"]

\* --------------------------------------------- account metadata (JSON text)
\* Lists found under "nodes" and maps found under "failing_nodes".
MetaNodeLists ==
    { <<>>,
      <<"https://a", "https://b">>,
      <<"not a url", "https://b">>,
      <<"https://a", "https://a">> }
MetaFailMaps == {EmptyMap, "https://b" :> "down"}

\* The value of the "nodes" member: omitted, of the wrong shape (null, a
\* string, a list holding a number), or a list of strings.
NodesFields ==
    {Absent, [k |-> "wrong"]} \cup {[k |-> "list", v |-> l] : l \in MetaNodeLists}

\* The value of the "failing_nodes" member, likewise.
FailingFields ==
    {Absent, [k |-> "wrong"]} \cup {[k |-> "map", v |-> m] : m \in MetaFailMaps}

\* The text of Account.json_metadata: text that is not JSON, JSON that is
\* not an object (e.g. the text []), or an object.
MetaStrings ==
    {[k |-> "invalid"], [k |-> "scalar"]}
    \cup {[k |-> "object", nodes |-> n, failing_nodes |-> f] :
             n \in NodesFields, f \in FailingFields}

MetaAB ==
    [k |-> "object",
     nodes |-> [k |-> "list", v |-> <<"https://a", "https://b">>],
     failing_nodes |-> [k |-> "map", v |-> "https://b" :> "down"]]
MetaAA ==
    [k |-> "object",
     nodes |-> [k |-> "list", v |-> <<"https://a", "https://a">>],
     failing_nodes |-> Absent]

\* struct Account
Account(name, meta) == [name |-> name, json_metadata |-> meta]

\* The "accounts" lists a node may answer with.
AccountLists ==
    {<<>>}
    \cup {<<Account(n, m)>> : n \in AccountNames, m \in MetaStrings}
    \cup {<<Account(p[1], MetaAB), Account(p[2], MetaAA)>> :
             p \in {q \in AccountNames \X AccountNames : q[1] # q[2]}}

\* ---------------------------------------------------------- wire envelope
\* A JSON value found under "result" that is not an accounts object.
OtherValue == [k |-> "other"]
AccountsValue(accts) == [k |-> "accounts", accounts |-> accts]

ResultFields ==
    {Absent, Null, OtherValue} \cup {AccountsValue(a) : a \in AccountLists}

RpcErrorValue == [k |-> "error", code |-> "-32000", message |-> "boom"]
ErrorFields == {Absent, Null, RpcErrorValue}

\* A response body: text that is not JSON, or a JSON object.
Envelope(jsonrpc, result, error, id) ==
    [k |-> "envelope", jsonrpc |-> jsonrpc, result |-> result,
     error |-> error, id |-> id]
Tag == [k |-> "str", v |-> "2.0"]
Id1 == [k |-> "num", v |-> "1"]
Id2 == [k |-> "num", v |-> "2"]

Bodies ==
    {[k |-> "garbage"]}
    \cup {Envelope(Tag, r, Absent, Id1) : r \in ResultFields}
    \cup {Envelope(Tag, r, e, Id1) :
             r \in {Absent, Null, OtherValue, AccountsValue(<<Account("nectarflower", MetaAB)>>)},
             e \in {Null, RpcErrorValue}}
    \cup {Envelope(Absent, OtherValue, Absent, Id1),
          Envelope(Tag, OtherValue, Absent, Absent),
          Envelope(Tag, OtherValue, Absent, Id2),
          Envelope(Tag, AccountsValue(<<Account("nectarflower", MetaAB)>>), Absent, Id2)}

\* What a POST to a node produces: a transport error, or an HTTP response.
NetErr(detail) == [t |-> "neterr", detail |-> detail]
Http(status, body) == [t |-> "http", status |-> status, body |-> body]

Responses ==
    {NetErr("timed out"), NetErr("connection refused")}
    \cup {Http(200, b) : b \in Bodies}
    \cup {Http(500, b) :
             b \in {[k |-> "garbage"],
                    Envelope(Tag, OtherValue, Absent, Id1),
                    Envelope(Tag, AccountsValue(<<Account("nectarflower", MetaAB)>>), Absent, Id1)}}

\* StatusCode::is_success
IsSuccess(status) == 200 <= status /\ status < 300

\* Display of StatusCode
StatusText(status) ==
    CASE status = 200 -> "200 OK"
      [] status = 500 -> "500 Internal Server Error"
      [] OTHER -> "?"

\* Deserialize for Option<R>: an omitted member and null both give None.
OptionOf(field) == IF field.k \in {"absent", "null"} THEN None ELSE Some(field)

\* resp.json::<RpcResponse<Value>>(): jsonrpc (String) and id (u32) are
\* required members, result and error are Options.
DecodeBody(body) ==
    IF body.k = "garbage" THEN Err(<<"expected value">>)
    ELSE IF body.jsonrpc.k # "str" THEN Err(<<"missing field jsonrpc">>)
    ELSE IF body.id.k # "num" THEN Err(<<"missing field id">>)
    ELSE Ok([result |-> OptionOf(body.result), error |-> OptionOf(body.error)])

\* serde_json::from_value::<R>(val) for the target types used by callers.
FromValue(val, ty) ==
    CASE ty = "Value" -> Ok(val)
      [] ty = "AccountsResponse" ->
            IF val.k = "accounts" THEN Ok([accounts |-> val.accounts])
            ELSE Err(<<"missing field accounts">>)

\* Variant: the result member is looked at before the error member.
call_node_result_first(resp, ty) ==
    IF resp.t = "neterr" THEN Err(<<"Request error: ", resp.detail>>)
    ELSE IF ~IsSuccess(resp.status)
    THEN Err(<<"Unexpected status code: ", StatusText(resp.status)>>)
    ELSE LET rpc == DecodeBody(resp.body) IN
         IF ~rpc.ok THEN Err(<<"Decode error: ">> \o rpc.err)
         ELSE IF rpc.val.result.k = "some"
         THEN LET d == FromValue(rpc.val.result.v, ty) IN
              IF d.ok THEN Ok(d.val) ELSE Err(<<"Result decode error: ">> \o d.err)
         ELSE IF rpc.val.error.k = "some"
         THEN Err(<<"RPC error: ", rpc.val.error.v.message,
                    " (code: ", rpc.val.error.v.code, ")">>)
         ELSE Err(<<"No result in RPC response">>)

\* Client::call_node, from the response of the POST on.
call_node(resp, ty) ==
    IF resp.t = "neterr" THEN Err(<<"Request error: ", resp.detail>>)
    ELSE IF ~IsSuccess(resp.status)
    THEN Err(<<"Unexpected status code: ", StatusText(resp.status)>>)
    ELSE LET rpc == DecodeBody(resp.body) IN
         IF ~rpc.ok THEN Err(<<"Decode error: ">> \o rpc.err)
         ELSE IF rpc.val.error.k = "some"
         THEN Err(<<"RPC error: ", rpc.val.error.v.message,
                    " (code: ", rpc.val.error.v.code, ")">>)
         ELSE IF rpc.val.result.k = "some"
         THEN LET d == FromValue(rpc.val.result.v, ty) IN
              IF d.ok THEN Ok(d.val) ELSE Err(<<"Result decode error: ">> \o d.err)
         ELSE Err(<<"No result in RPC response">>)

\* Variant: unwrap_or_default(), an empty message.
UnwrapLastErrDefault(lastErr) ==
    IF lastErr.k = "some" THEN lastErr.v ELSE <<>>

\* last_err.unwrap_or_else(|| "No nodes available".to_string())
UnwrapLastErr(lastErr) ==
    IF lastErr.k = "some" THEN lastErr.v ELSE <<"No nodes available">>

\* ---------------------------------------------------------------- discovery
\* serde_json::from_str::<Value>(json_metadata)
FromStr(text) ==
    IF text.k = "invalid" THEN Err(<<"expected value">>) ELSE Ok(text)

\* Value::get(key): None unless the value is an object holding the key.
ValueGet(value, key) ==
    IF value.k # "object" THEN None
    ELSE LET field == IF key = "nodes" THEN value.nodes ELSE value.failing_nodes
         IN  IF field.k = "absent" THEN None ELSE Some(field)

\* Variant: a value of the wrong shape gives the default, an empty list.
NodesFromValueOrDefault(field) ==
    IF field.k = "list" THEN Ok(field.v) ELSE Ok(<<>>)

\* serde_json::from_value::<Vec<String>>
NodesFromValue(field) ==
    IF field.k = "list" THEN Ok(field.v) ELSE Err(<<"invalid type">>)

\* serde_json::from_value::<HashMap<String, String>>
FailingFromValue(field) ==
    IF field.k = "map" THEN Ok(field.v) ELSE Err(<<"invalid type">>)

\* struct NodeData
NodeData(ns, fs) == [nodes |-> ns, failing_nodes |-> fs]

\* Variant: a failing_nodes member of the wrong shape is an error (a ? in
\* place of unwrap_or_else).
get_nodes_from_account_strict(callRet, account_name) ==
    IF ~callRet.ok THEN Err(<<"Error fetching account: ">> \o callRet.err)
    ELSE IF Len(callRet.val.accounts) = 0
    THEN Err(<<"Account ", account_name, " not found">>)
    ELSE LET account == callRet.val.accounts[1]
             metadata_obj == FromStr(account.json_metadata)
         IN  IF ~metadata_obj.ok
             THEN Err(<<"Error parsing JSON metadata: ">> \o metadata_obj.err)
             ELSE LET ns == ValueGet(metadata_obj.val, "nodes")
                      fs == ValueGet(metadata_obj.val, "failing_nodes")
                  IN  IF ns.k = "none"
                      THEN Err(<<"No nodes found in account metadata">>)
                      ELSE IF ~NodesFromValue(ns.v).ok
                      THEN Err(<<"Error parsing nodes: ">> \o NodesFromValue(ns.v).err)
                      ELSE IF fs.k = "some" /\ ~FailingFromValue(fs.v).ok
                      THEN Err(<<"Error parsing failing_nodes: ">>
                               \o FailingFromValue(fs.v).err)
                      ELSE Ok(NodeData(
                               NodesFromValue(ns.v).val,
                               IF fs.k = "some" THEN FailingFromValue(fs.v).val
                               ELSE EmptyMap))

\* Client::get_nodes_from_account, from the return of self.call on.
get_nodes_from_account(callRet, account_name) ==
    IF ~callRet.ok THEN Err(<<"Error fetching account: ">> \o callRet.err)
    ELSE IF Len(callRet.val.accounts) = 0
    THEN Err(<<"Account ", account_name, " not found">>)
    ELSE LET account == callRet.val.accounts[1]
             metadata_obj == FromStr(account.json_metadata)
         IN  IF ~metadata_obj.ok
             THEN Err(<<"Error parsing JSON metadata: ">> \o metadata_obj.err)
             ELSE LET ns == ValueGet(metadata_obj.val, "nodes")
                      fs == ValueGet(metadata_obj.val, "failing_nodes")
                  IN  IF ns.k = "none"
                      THEN Err(<<"No nodes found in account metadata">>)
                      ELSE IF ~NodesFromValue(ns.v).ok
                      THEN Err(<<"Error parsing nodes: ">> \o NodesFromValue(ns.v).err)
                      ELSE Ok(NodeData(
                               NodesFromValue(ns.v).val,
                               IF fs.k = "some" /\ FailingFromValue(fs.v).ok
                               THEN FailingFromValue(fs.v).val
                               ELSE EmptyMap))

\* ------------------------------------------------- the request on the wire
\* Strings are sequences of characters here, so that the escaping done by
\* the JSON writer and undone by the JSON reader is computed.
Str20 == <<"2", ".", "0">>
Strings ==
    { <<>>,
      <<"f">>,
      <<"a", "\"", "b">>,
      <<"\\", "n">> }

\* The ids tried (u32).
Ids == {0, 1, 10, 4096}

\* The params payloads tried, each with its type P: () and AccountParams.
ParamsValues ==
    {[ty |-> "unit", accounts |-> <<>>]}
    \cup {[ty |-> "AccountParams", accounts |-> a] :
             a \in {<<>>} \cup {<<x>> : x \in Strings} \cup {<<<<"f">>, <<"a", "\"", "b">>>>}}

\* struct RpcRequest<P>
RpcRequest(jsonrpc, method, params, id) ==
    [jsonrpc |-> jsonrpc, method |-> method, params |-> params, id |-> id]

\* The request call_node builds.
NewRequest(method, params) == RpcRequest(Str20, method, params, 1)

Requests ==
    {RpcRequest(Str20, m, p, n) : m \in Strings, p \in ParamsValues, n \in Ids}

\* serde_json writes " and \ inside a string with a \ before them.
RECURSIVE Escape(_)
Escape(chars) ==
    IF chars = <<>> THEN <<>>
    ELSE (IF Head(chars) \in {"\"", "\\"} THEN <<"\\", Head(chars)>> ELSE <<Head(chars)>>)
         \o Escape(Tail(chars))

\* serde_json reads the character after a \ as itself.
RECURSIVE Unescape(_)
Unescape(text) ==
    IF text = <<>> THEN <<>>
    ELSE IF Head(text) = "\\" /\ Len(text) >= 2
    THEN <<text[2]>> \o Unescape(SubSeq(text, 3, Len(text)))
    ELSE <<Head(text)>> \o Unescape(Tail(text))

Digits == <<"0", "1", "2", "3", "4", "5", "6", "7", "8", "9">>

\* A u32 written in decimal, and read back.
RECURSIVE ToDigits(_)
ToDigits(n) ==
    IF n < 10 THEN <<Digits[n + 1]>>
    ELSE ToDigits(n \div 10) \o <<Digits[(n % 10) + 1]>>

RECURSIVE FromDigits(_)
FromDigits(ds) ==
    IF ds = <<>> THEN 0
    ELSE FromDigits(SubSeq(ds, 1, Len(ds) - 1)) * 10
         + (CHOOSE d \in 0..9 : Digits[d + 1] = ds[Len(ds)])

\* JSON values as written: strings escaped, numbers in digits.
JNull == [k |-> "null"]
JString(chars) == [k |-> "string", text |-> Escape(chars)]
JNumber(n) == [k |-> "number", text |-> ToDigits(n)]
JArray(items) == [k |-> "array", items |-> items]
JObject(members) == [k |-> "object", members |-> members]
Member(key, val) == [key |-> key, val |-> val]

\* Serialize for P: () is null, AccountParams an object with its one field.
SerializeParams(p) ==
    IF p.ty = "unit" THEN JNull
    ELSE JObject(<<Member("accounts",
                          JArray([j \in 1..Len(p.accounts) |-> JString(p.accounts[j])]))>>)

\* Variant: params is left out when it serializes to null
\* (skip_serializing_if).
SerializeRequestSkippingNull(req) ==
    JObject(<<Member("jsonrpc", JString(req.jsonrpc)),
              Member("method", JString(req.method))>>
            \o (IF req.params.ty = "unit" THEN <<>>
                ELSE <<Member("params", SerializeParams(req.params))>>)
            \o <<Member("id", JNumber(req.id))>>)

\* #[derive(Serialize)] for RpcRequest<P>, as .json(&req) writes it: the
\* four fields in declaration order.
SerializeRequest(req) ==
    JObject(<<Member("jsonrpc", JString(req.jsonrpc)),
              Member("method", JString(req.method)),
              Member("params", SerializeParams(req.params)),
              Member("id", JNumber(req.id))>>)

\* The value of the member named key of a JSON object.
Lookup(obj, key) ==
    LET hits == {j \in 1..Len(obj.members) : obj.members[j].key = key}
    IN  IF hits = {} THEN None ELSE Some(obj.members[CHOOSE j \in hits : TRUE].val)

\* Deserialize for String and u32.
DeString(f) == IF f.k = "some" /\ f.v.k = "string" THEN Ok(Unescape(f.v.text))
               ELSE Err(<<"invalid type or missing field">>)
DeU32(f) == IF f.k = "some" /\ f.v.k = "number" THEN Ok(FromDigits(f.v.text))
            ELSE Err(<<"invalid type or missing field">>)

\* Deserialize for P, for the type ty the reader asks for.
DeParams(f, ty) ==
    IF f.k # "some" THEN Err(<<"missing field params">>)
    ELSE IF ty = "unit"
    THEN (IF f.v.k = "null" THEN Ok([ty |-> "unit", accounts |-> <<>>])
          ELSE Err(<<"invalid type">>))
    ELSE IF f.v.k # "object" THEN Err(<<"invalid type">>)
    ELSE LET a == Lookup(f.v, "accounts") IN
         IF a.k = "some" /\ a.v.k = "array"
               /\ \A j \in 1..Len(a.v.items) : a.v.items[j].k = "string"
         THEN Ok([ty |-> "AccountParams",
                  accounts |-> [j \in 1..Len(a.v.items) |-> Unescape(a.v.items[j].text)]])
         ELSE Err(<<"invalid type or missing field">>)

\* #[derive(Deserialize)] for RpcRequest<P>.
DeserializeRequest(wire, ty) ==
    IF wire.k # "object" THEN Err(<<"invalid type">>)
    ELSE LET jsonrpc == DeString(Lookup(wire, "jsonrpc"))
             method == DeString(Lookup(wire, "method"))
             params == DeParams(Lookup(wire, "params"), ty)
             id == DeU32(Lookup(wire, "id"))
         IN  IF ~jsonrpc.ok THEN Err(jsonrpc.err)
             ELSE IF ~method.ok THEN Err(method.err)
             ELSE IF ~params.ok THEN Err(params.err)
             ELSE IF ~id.ok THEN Err(id.err)
             ELSE Ok(RpcRequest(jsonrpc.val, method.val, params.val, id.val))

\* -------------------------------------------------------------------- state
VARIABLES
    nodes,          \* Client.nodes
    failing_nodes,  \* Client.failing_nodes
    op,             \* the public operation running or last run, with its arguments
    pc,             \* where that operation stands
    i,              \* call: position of the for loop in self.nodes (from 1)
    last_err,       \* call: the local last_err
    call_ret,       \* what self.call returned
    ret,            \* what the public operation returned
    pre,            \* history: the registry when the operation began
    log,            \* history: the attempts of the running call, in order
    resp,           \* history: the response the last attempt received
    rt              \* a request, its wire form and what is read back from it

vars == <<nodes, failing_nodes, op, pc, i, last_err, call_ret, ret, pre, log, resp, rt>>

NoOp == [name |-> "none", ty |-> "", account |-> "", cands |-> <<>>, failing |-> EmptyMap]
NoRet == [ok |-> FALSE, val |-> [k |-> "pending"], err |-> <<>>]
NoResp == [t |-> "none"]

NoRt == [stage |-> "none", req |-> NewRequest(<<>>, [ty |-> "unit", accounts |-> <<>>]),
         wire |-> JNull, back |-> NoRet]

Registry == [nodes |-> nodes, failing_nodes |-> failing_nodes]

Init ==
    /\ rt = NoRt
    /\ nodes = New.nodes
    /\ failing_nodes = New.failing_nodes
    /\ op = NoOp
    /\ pc = "idle"
    /\ i = 0
    /\ last_err = None
    /\ call_ret = NoRet
    /\ ret = NoRet
    /\ pre = New
    /\ log = <<>>
    /\ resp = NoResp

\* The client is owned by one caller (&self / &mut self): an operation starts
\* only when none is running.
CanStart == pc = "idle"

\* Variant: the new failing map is merged into the client's current one
\* (extend in place of assignment).
SetNodesMerging(cands, failing) ==
    /\ UNCHANGED rt
    /\ CanStart
    /\ nodes' = set_nodes(cands, failing).nodes
    /\ failing_nodes' =
          [n \in DOMAIN failing_nodes \cup DOMAIN failing |->
              IF n \in DOMAIN failing THEN failing[n] ELSE failing_nodes[n]]
    /\ op' = [NoOp EXCEPT !.name = "set_nodes", !.cands = cands, !.failing = failing]
    /\ pc' = "done"
    /\ ret' = Ok(Unit)
    /\ pre' = Registry
    /\ i' = 0 /\ last_err' = None /\ call_ret' = NoRet /\ log' = <<>> /\ resp' = NoResp

\* Client::set_nodes(nodes, failing_nodes)
SetNodes(cands, failing) ==
    /\ UNCHANGED rt
    /\ CanStart
    /\ nodes' = set_nodes(cands, failing).nodes
    /\ failing_nodes' = set_nodes(cands, failing).failing_nodes
    /\ op' = [NoOp EXCEPT !.name = "set_nodes", !.cands = cands, !.failing = failing]
    /\ pc' = "done"
    /\ ret' = Ok(Unit)
    /\ pre' = Registry
    /\ i' = 0 /\ last_err' = None /\ call_ret' = NoRet /\ log' = <<>> /\ resp' = NoResp

\* Entry of self.call: let mut last_err = None, and the for loop at its head.
EnterCall(o) ==
    /\ UNCHANGED rt
    /\ CanStart
    /\ op' = o
    /\ pc' = "loop"
    /\ i' = 1
    /\ last_err' = None
    /\ call_ret' = NoRet /\ ret' = NoRet /\ log' = <<>> /\ resp' = NoResp
    /\ pre' = Registry
    /\ UNCHANGED <<nodes, failing_nodes>>

\* Client::call::<P, R>(method, params), for a target type R
Call(ty) == EnterCall([NoOp EXCEPT !.name = "call", !.ty = ty])

\* Client::get_nodes_from_account(account_name), up to its self.call
GetNodesFromAccount(account_name) ==
    EnterCall([NoOp EXCEPT !.name = "get_nodes_from_account",
                           !.ty = "AccountsResponse", !.account = account_name])

\* Client::update_nodes_from_account(account_name), up to its self.call
UpdateNodesFromAccount(account_name) ==
    EnterCall([NoOp EXCEPT !.name = "update_nodes_from_account",
                           !.ty = "AccountsResponse", !.account = account_name])

\* Variant: the loop walks the list from its end.
NodeAtReversed(ns, j) == ns[Len(ns) + 1 - j]

\* Variant: a failed node is tried again.
NextPositionRetry(j) == j

\* for node in &self.nodes: the node the loop visits at its j-th turn, and
\* the turn that follows the j-th.
NodeAt(ns, j) == ns[j]
NextPosition(j) == j + 1

\* call_node up to send(): the request leaves for the node of turn i.
Send ==
    /\ UNCHANGED rt
    /\ pc = "loop"
    /\ i <= Len(nodes)
    /\ pc' = "wait"
    /\ log' = Append(log, [idx |-> i, node |-> NodeAt(nodes, i),
                           st |-> "inflight", res |-> None])
    /\ UNCHANGED <<nodes, failing_nodes, op, i, last_err, call_ret, ret, pre, resp>>

\* Variant: an Ok outcome is kept and the loop goes on to the next node.
AfterAttemptKeepsGoing(out) ==
    /\ call_ret' = IF out.ok THEN out ELSE call_ret
    /\ last_err' = IF out.ok THEN last_err ELSE Some(out.err)
    /\ i' = NextPosition(i)
    /\ pc' = "loop"

\* Variant: the first Err outcome is returned at once (a ? on call_node).
AfterAttemptAborts(out) ==
    /\ call_ret' = out
    /\ pc' = "called"
    /\ last_err' = IF out.ok THEN last_err ELSE Some(out.err)
    /\ i' = i

\* Variant: last_err keeps the first failure (last_err.get_or_insert(e)).
AfterAttemptFirstError(out) ==
    IF out.ok
    THEN /\ call_ret' = out
         /\ pc' = "called"
         /\ UNCHANGED <<i, last_err>>
    ELSE /\ last_err' = IF last_err.k = "some" THEN last_err ELSE Some(out.err)
         /\ i' = NextPosition(i)
         /\ pc' = "loop"
         /\ call_ret' = call_ret

\* What the match in the for loop does with the outcome of call_node:
\* Ok(res) => return Ok(res), Err(e) => last_err = Some(e).
AfterAttempt(out) ==
    IF out.ok
    THEN /\ call_ret' = out
         /\ pc' = "called"
         /\ UNCHANGED <<i, last_err>>
    ELSE /\ last_err' = Some(out.err)
         /\ i' = NextPosition(i)
         /\ pc' = "loop"
         /\ call_ret' = call_ret

\* send() returns with r: the rest of call_node, then the match of the loop.
Recv(r) ==
    /\ UNCHANGED rt
    /\ pc = "wait"
    /\ resp' = r
    /\ log' = [log EXCEPT ![Len(log)] =
                  IF call_node(r, op.ty).ok
                  THEN [@ EXCEPT !.st = "ok", !.res = Some(call_node(r, op.ty).val)]
                  ELSE [@ EXCEPT !.st = "err"]]
    /\ AfterAttempt(call_node(r, op.ty))
    /\ UNCHANGED <<nodes, failing_nodes, op, ret, pre>>

\* The for loop is over: Err(last_err.unwrap_or_else(..)).
Exhausted ==
    /\ UNCHANGED rt
    /\ pc = "loop"
    /\ i > Len(nodes)
    /\ call_ret' = Err(UnwrapLastErr(last_err))
    /\ pc' = "called"
    /\ UNCHANGED <<nodes, failing_nodes, op, i, last_err, ret, pre, log, resp>>

\* call returns to its caller.
CallReturn ==
    /\ UNCHANGED rt
    /\ pc = "called"
    /\ op.name = "call"
    /\ ret' = call_ret
    /\ pc' = "done"
    /\ UNCHANGED <<nodes, failing_nodes, op, i, last_err, call_ret, pre, log, resp>>

\* Variant: discovery installs what it found.
GetReturnInstalling ==
    /\ UNCHANGED rt
    /\ pc = "called"
    /\ op.name = "get_nodes_from_account"
    /\ LET d == get_nodes_from_account(call_ret, op.account) IN
       /\ ret' = d
       /\ nodes' = IF d.ok THEN set_nodes(d.val.nodes, d.val.failing_nodes).nodes ELSE nodes
       /\ failing_nodes' = IF d.ok THEN d.val.failing_nodes ELSE failing_nodes
    /\ pc' = "done"
    /\ UNCHANGED <<op, i, last_err, call_ret, pre, log, resp>>

\* get_nodes_from_account after its self.call.
GetReturn ==
    /\ UNCHANGED rt
    /\ pc = "called"
    /\ op.name = "get_nodes_from_account"
    /\ ret' = get_nodes_from_account(call_ret, op.account)
    /\ pc' = "done"
    /\ UNCHANGED <<nodes, failing_nodes, op, i, last_err, call_ret, pre, log, resp>>

\* Variant: a failed discovery installs NodeData::default().
update_nodes_from_account_or_default(reg, discovered) ==
    IF discovered.ok
    THEN [reg |-> set_nodes(discovered.val.nodes, discovered.val.failing_nodes),
          ret |-> Ok(Unit)]
    ELSE [reg |-> set_nodes(<<>>, EmptyMap), ret |-> Err(discovered.err)]

\* A panic that unwinds out of the operation: no value is returned.
Panicked == [ok |-> FALSE, val |-> [k |-> "panic"], err |-> <<>>]

\* Variant: unwrap() on the discovery result in place of ?.
update_nodes_from_account_unwrap(reg, discovered) ==
    IF discovered.ok
    THEN [reg |-> set_nodes(discovered.val.nodes, discovered.val.failing_nodes),
          ret |-> Ok(Unit)]
    ELSE [reg |-> reg, ret |-> Panicked]

\* Variant: a failed discovery falls back to the built-in default node.
update_nodes_from_account_fallback(reg, discovered) ==
    IF discovered.ok
    THEN [reg |-> set_nodes(discovered.val.nodes, discovered.val.failing_nodes),
          ret |-> Ok(Unit)]
    ELSE [reg |-> New, ret |-> Err(discovered.err)]

\* Client::update_nodes_from_account after the call: the ? on discovery,
\* then self.set_nodes(node_data.nodes, node_data.failing_nodes).
update_nodes_from_account(reg, discovered) ==
    IF discovered.ok
    THEN [reg |-> set_nodes(discovered.val.nodes, discovered.val.failing_nodes),
          ret |-> Ok(Unit)]
    ELSE [reg |-> reg, ret |-> Err(discovered.err)]

UpdateReturn ==
    /\ UNCHANGED rt
    /\ pc = "called"
    /\ op.name = "update_nodes_from_account"
    /\ LET u == update_nodes_from_account(
                    Registry, get_nodes_from_account(call_ret, op.account))
       IN  /\ nodes' = u.reg.nodes
           /\ failing_nodes' = u.reg.failing_nodes
           /\ ret' = u.ret
    /\ pc' = "done"
    /\ UNCHANGED <<op, i, last_err, call_ret, pre, log, resp>>

\* The caller is done with the returned value; the locals and the history of
\* the finished operation are gone.
Drop ==
    /\ UNCHANGED rt
    /\ pc = "done"
    /\ pc' = "idle"
    /\ op' = NoOp
    /\ i' = 0 /\ last_err' = None /\ call_ret' = NoRet /\ ret' = NoRet
    /\ pre' = Registry /\ log' = <<>> /\ resp' = NoResp
    /\ UNCHANGED <<nodes, failing_nodes>>

TargetTypes == {"Value", "AccountsResponse"}

Next ==
    \/ \E cands \in Candidates, failing \in FailMaps : SetNodes(cands, failing)
    \/ \E ty \in TargetTypes : Call(ty)
    \/ \E a \in AccountNames : GetNodesFromAccount(a)
    \/ \E a \in AccountNames : UpdateNodesFromAccount(a)
    \/ Send
    \/ \E r \in Responses : Recv(r)
    \/ Exhausted
    \/ CallReturn
    \/ GetReturn
    \/ UpdateReturn
    \/ Drop

Spec == Init /\ [][Next]_vars

\* --------------------------------------- the request, written and read back
\* A request is at hand.
InitRoundTrip ==
    /\ nodes = New.nodes
    /\ failing_nodes = New.failing_nodes
    /\ op = NoOp
    /\ pc = "idle"
    /\ i = 0
    /\ last_err = None
    /\ call_ret = NoRet
    /\ ret = NoRet
    /\ pre = New
    /\ log = <<>>
    /\ resp = NoResp
    /\ \E req \in Requests : rt = [NoRt EXCEPT !.stage = "built", !.req = req]

\* .json(&req): the request is written.
Encode ==
    /\ rt.stage = "built"
    /\ rt' = [rt EXCEPT !.stage = "encoded", !.wire = SerializeRequest(rt.req)]
    /\ UNCHANGED <<nodes, failing_nodes, op, pc, i, last_err, call_ret, ret, pre, log, resp>>

\* The text is read back as an RpcRequest<P> of the same P.
Decode ==
    /\ rt.stage = "encoded"
    /\ rt' = [rt EXCEPT !.stage = "decoded",
                        !.back = DeserializeRequest(rt.wire, rt.req.params.ty)]
    /\ UNCHANGED <<nodes, failing_nodes, op, pc, i, last_err, call_ret, ret, pre, log, resp>>

NextRoundTrip == Encode \/ Decode

SpecRoundTrip == InitRoundTrip /\ [][NextRoundTrip]_vars

\* ------------------------------------------------------------- properties
InCall == op.name \in {"call", "get_nodes_from_account", "update_nodes_from_account"}

\* self.call has returned (to the caller, or into discovery).
Returned == InCall /\ pc \in {"called", "done"}

AllFailed == \A k \in 1..Len(log) : log[k].st = "err"

\* C1: in every reachable state, no key of failing_nodes is an element of
\* nodes.
C1_FailingNeverActive ==
    \A k \in 1..Len(nodes) : nodes[k] \notin DOMAIN failing_nodes

\* set_nodes was given a candidate that is a failing key, and kept another.
C1_Witness ==
    /\ pc = "done" /\ op.name = "set_nodes"
    /\ \E k \in 1..Len(op.cands) : op.cands[k] \in DOMAIN op.failing
    /\ Len(nodes) > 0
    /\ DOMAIN failing_nodes # {}

\* C2: an attempt that yields a valid decoded result is the first such one
\* (all attempts before it failed), it is the last attempt of the call, and
\* call returns Ok with its result.
C2_ShortCircuit ==
    \A k \in 1..Len(log) :
        log[k].st = "ok" =>
            /\ \A j \in 1..(k - 1) : log[j].st = "err"
            /\ Len(log) = k
            /\ pc \in {"called", "done"}
            /\ call_ret = Ok(log[k].res.v)
            /\ (pc = "done" /\ op.name = "call" => ret = Ok(log[k].res.v))

\* call succeeded at the first of two nodes; the second was not contacted.
C2_Witness ==
    /\ pc = "done" /\ op.name = "call"
    /\ Len(nodes) = 2
    /\ Len(log) = 1 /\ log[1].st = "ok"
    /\ ret.ok

\* C3: the attempts of a call go to the positions 1, 2, ... of the active
\* sequence in that order, an attempt is made only after every earlier one
\* has completed with a failure, and at most one attempt is in flight.
C3_InOrderOneAtATime ==
    /\ Len(log) <= Len(pre.nodes)
    /\ \A k \in 1..Len(log) :
          /\ log[k].idx = k
          /\ log[k].node = pre.nodes[k]
          /\ (k < Len(log) => log[k].st = "err")
    /\ Cardinality({k \in 1..Len(log) : log[k].st = "inflight"}) <= 1
    /\ (pc = "wait" <=> (Len(log) > 0 /\ log[Len(log)].st = "inflight"))

\* The second of two different nodes is being contacted.
C3_Witness ==
    /\ pc = "wait"
    /\ Len(log) = 2
    /\ log[1].node # log[2].node
    /\ log[1].st = "err"

\* C4: a failed attempt leaves the call running at the next position; call
\* returns Err only after every position has been attempted and has failed,
\* and returns Ok as soon as an attempt yields a valid result.
C4_FailureNeverAborts ==
    /\ (InCall /\ pc = "loop") => (i = Len(log) + 1 /\ AllFailed)
    /\ Returned =>
          /\ call_ret.ok <=> (Len(log) > 0 /\ log[Len(log)].st = "ok")
          /\ ~call_ret.ok => (Len(log) = Len(pre.nodes) /\ AllFailed)

\* HTTP 500 on node 1, a valid result on node 2: call returned Ok.
C4_Witness ==
    /\ pc = "done" /\ op.name = "call"
    /\ Len(log) = 2 /\ log[2].st = "ok"
    /\ last_err = Some(<<"Unexpected status code: ", "500 Internal Server Error">>)
    /\ ret.ok /\ ret = Ok(log[2].res.v)

\* C5: when the active sequence is not empty and every attempt failed, call
\* returns the failure of the attempt at the last position, and nothing else.
C5_LastErrorSurfaced ==
    (Returned /\ Len(pre.nodes) > 0 /\ AllFailed) =>
        /\ Len(log) = Len(pre.nodes)
        /\ log[Len(log)].idx = Len(pre.nodes)
        /\ call_ret = Err(call_node(resp, op.ty).err)
        /\ (pc = "done" /\ op.name = "call" => ret = call_ret)

\* Two nodes failed; the last one with a transport error.
C5_Witness ==
    /\ pc = "done" /\ op.name = "call"
    /\ Len(log) = 2 /\ AllFailed
    /\ resp.t = "neterr"
    /\ ret = Err(<<"Request error: ", resp.detail>>)

\* C6: a call on an empty active sequence makes no attempt and returns the
\* "No nodes available" error.
C6_NoNodesAvailable ==
    (InCall /\ Len(pre.nodes) = 0) =>
        /\ pc # "wait"
        /\ log = <<>>
        /\ resp = NoResp
        /\ Returned => call_ret = Err(<<"No nodes available">>)
        /\ (pc = "done" /\ op.name = "call" => ret = Err(<<"No nodes available">>))

\* call has returned on a client with no active node.
C6_Witness ==
    /\ pc = "done" /\ op.name = "call"
    /\ Len(nodes) = 0
    /\ ~ret.ok

\* out is cands with the entries that are failing keys or not URLs removed,
\* the others kept in place, one for one.
RECURSIVE IsOrderedFilter(_, _, _)
IsOrderedFilter(out, cands, failing) ==
    IF cands = <<>> THEN out = <<>>
    ELSE IF Head(cands) \notin DOMAIN failing /\ UrlParseOk(Head(cands))
    THEN /\ out # <<>>
         /\ Head(out) = Head(cands)
         /\ IsOrderedFilter(Tail(out), Tail(cands), failing)
    ELSE IsOrderedFilter(out, Tail(cands), failing)

\* C7: after set_nodes(candidates, failing), from any prior state, nodes is
\* the order-preserving filter of candidates keeping exactly the entries
\* that are not keys of failing and are URLs, duplicates included.
C7_OrderPreservingFilter ==
    (pc = "done" /\ op.name = "set_nodes") =>
        IsOrderedFilter(nodes, op.cands, op.failing)

\* A duplicated candidate was kept twice, over a prior registry that
\* differs from the result.
C7_Witness ==
    /\ pc = "done" /\ op.name = "set_nodes"
    /\ op.cands = <<"https://a", "https://a">>
    /\ nodes = <<"https://a", "https://a">>
    /\ pre.nodes # nodes

\* C8: after set_nodes(candidates, failing), failing_nodes is the failing
\* argument, whatever it was before; candidates that are not URLs are not
\* among its keys unless the argument has them.
C8_FailingInstalledVerbatim ==
    (pc = "done" /\ op.name = "set_nodes") =>
        /\ failing_nodes = op.failing
        /\ \A k \in 1..Len(op.cands) :
              (~UrlParseOk(op.cands[k]) /\ op.cands[k] \notin DOMAIN op.failing)
                  => op.cands[k] \notin DOMAIN failing_nodes

\* A candidate that is not a URL was dropped, and the previous failing map
\* had a key the new one has not.
C8_Witness ==
    /\ pc = "done" /\ op.name = "set_nodes"
    /\ \E k \in 1..Len(op.cands) : ~UrlParseOk(op.cands[k])
    /\ DOMAIN pre.failing_nodes \ DOMAIN op.failing # {}
    /\ DOMAIN op.failing # {}

\* Discovery fails on what call returned: dispatch failure, empty account
\* list, metadata that is not JSON, nodes missing or not a list of strings.
DiscoveryFails ==
    \/ ~call_ret.ok
    \/ Len(call_ret.val.accounts) = 0
    \/ call_ret.val.accounts[1].json_metadata.k # "object"
    \/ call_ret.val.accounts[1].json_metadata.nodes.k # "list"

\* C9: update_nodes_from_account returns Err and leaves nodes and
\* failing_nodes as they were when discovery fails; when discovery gives
\* NodeData d the registry is set_nodes(d.nodes, d.failing_nodes), and
\* nodes [a, b] with failing {b: down} give the active sequence [a].
C9_UpdateAllOrNothing ==
    (pc = "done" /\ op.name = "update_nodes_from_account") =>
        LET d == get_nodes_from_account(call_ret, op.account) IN
        /\ DiscoveryFails <=> ~d.ok
        /\ ~d.ok => (ret = Err(d.err) /\ Registry = pre)
        /\ d.ok => /\ ret = Ok(Unit)
                   /\ IsOrderedFilter(nodes, d.val.nodes, d.val.failing_nodes)
                   /\ failing_nodes = d.val.failing_nodes
        /\ (d.ok /\ d.val = NodeData(<<"https://a", "https://b">>, "https://b" :> "down"))
              => (nodes = <<"https://a">> /\ failing_nodes = ("https://b" :> "down"))

\* Discovery found [a, b] with b failing; the default registry became [a].
C9_Witness ==
    /\ pc = "done" /\ op.name = "update_nodes_from_account"
    /\ ret.ok
    /\ pre = New
    /\ nodes = <<"https://a">>
    /\ failing_nodes = ("https://b" :> "down")

\* C10: while and after call or get_nodes_from_account runs, nodes and
\* failing_nodes are what they were when it began.
C10_CallsLeaveRegistry ==
    op.name \in {"call", "get_nodes_from_account"} => Registry = pre

\* Discovery succeeded after a node failed, and found nodes other than the
\* client's.
C10_Witness ==
    /\ pc = "done" /\ op.name = "get_nodes_from_account"
    /\ ret.ok
    /\ Len(log) = 2
    /\ ret.val.nodes # nodes
    /\ Registry = pre

\* Discovery has returned, and call had given it a list of accounts.
DiscoveryReturned ==
    /\ pc = "done"
    /\ op.name \in {"get_nodes_from_account", "update_nodes_from_account"}
    /\ call_ret.ok

\* What get_nodes_from_account returned (update_nodes_from_account keeps
\* only its error).
Discovered == get_nodes_from_account(call_ret, op.account)

\* The accounts of the answer that bear the requested name.
NamedAccounts ==
    {k \in 1..Len(call_ret.val.accounts) : call_ret.val.accounts[k].name = op.account}

\* C11: get_nodes_from_account fails with the account-not-found error when
\* no account of the answer has the requested name (an empty list included),
\* and the NodeData it returns comes from an account with that name.
C11_NamedAccountOnly ==
    (pc = "done" /\ op.name = "get_nodes_from_account" /\ call_ret.ok) =>
        /\ NamedAccounts = {} => ret = Err(<<"Account ", op.account, " not found">>)
        /\ ret.ok =>
              \E k \in NamedAccounts :
                  ret = get_nodes_from_account(
                            Ok([accounts |-> <<call_ret.val.accounts[k]>>]), op.account)

\* The metadata of the account discovery reads, once it has parsed.
ParsedMetadata ==
    /\ DiscoveryReturned
    /\ Len(call_ret.val.accounts) > 0
    /\ call_ret.val.accounts[1].json_metadata.k \in {"scalar", "object"}

Metadata == call_ret.val.accounts[1].json_metadata

\* What the public operation reports of discovery: its return for
\* get_nodes_from_account, its error for update_nodes_from_account.
DiscoveryErr(e) == ~ret.ok /\ ret.err = e

\* C12: when the parsed metadata has no nodes member discovery returns the
\* "No nodes found in account metadata" error, and when nodes is present but
\* is not a list of strings it returns the "Error parsing nodes" error;
\* whatever failing_nodes holds, no NodeData is returned.
C12_NodesRequired ==
    ParsedMetadata =>
        /\ (Metadata.k = "scalar" \/ Metadata.nodes.k = "absent")
              => DiscoveryErr(<<"No nodes found in account metadata">>)
        /\ (Metadata.k = "object" /\ Metadata.nodes.k = "wrong")
              => (~ret.ok /\ ret.err[1] = "Error parsing nodes: ")
        /\ (Metadata.k = "object" /\ Metadata.nodes.k # "list")
              => (Registry = pre /\ ~Discovered.ok)

\* nodes has the wrong shape beside a well-formed failing_nodes map.
C12_Witness ==
    /\ ParsedMetadata
    /\ op.name = "get_nodes_from_account"
    /\ Metadata.k = "object"
    /\ Metadata.nodes.k = "wrong"
    /\ Metadata.failing_nodes.k = "map"
    /\ ~ret.ok

\* C13: when nodes is a list of strings and failing_nodes is omitted or has
\* the wrong shape, get_nodes_from_account returns Ok with that list and an
\* empty failing map.
C13_FailingNodesSoft ==
    (ParsedMetadata /\ op.name = "get_nodes_from_account"
        /\ Metadata.k = "object" /\ Metadata.nodes.k = "list"
        /\ Metadata.failing_nodes.k \in {"absent", "wrong"})
    => ret = Ok(NodeData(Metadata.nodes.v, EmptyMap))

\* failing_nodes has the wrong shape beside a list of two nodes.
C13_Witness ==
    /\ ParsedMetadata
    /\ op.name = "get_nodes_from_account"
    /\ Metadata.k = "object"
    /\ Metadata.nodes.k = "list" /\ Len(Metadata.nodes.v) = 2
    /\ Metadata.failing_nodes.k = "wrong"
    /\ ret.ok /\ ret.val.failing_nodes = EmptyMap

\* The last attempt of the call has completed; resp is what it received.
Attempted == InCall /\ Len(log) > 0 /\ pc \in {"loop", "called", "done"}

\* What call_node returned for that attempt, as the loop of call saw it.
Outcome ==
    IF log[Len(log)].st = "ok" THEN Ok(log[Len(log)].res.v) ELSE Err(last_err.v)

\* That attempt received a success status and a body that is an envelope
\* with its jsonrpc and id members.
GoodEnvelope ==
    /\ Attempted
    /\ resp.t = "http" /\ IsSuccess(resp.status)
    /\ resp.body.k = "envelope"
    /\ resp.body.jsonrpc.k = "str" /\ resp.body.id.k = "num"

\* C14: for a received envelope, an error object makes the attempt an RPC
\* failure with its code and message even beside a result; with neither
\* result nor error the attempt fails with the missing-result error; an
\* attempt succeeds only without an error object and with a result.
C14_EnvelopeRules ==
    GoodEnvelope =>
        /\ resp.body.error.k = "error" =>
              Outcome = Err(<<"RPC error: ", resp.body.error.message,
                              " (code: ", resp.body.error.code, ")">>)
        /\ (resp.body.error.k = "absent" /\ resp.body.result.k = "absent") =>
              Outcome = Err(<<"No result in RPC response">>)
        /\ Outcome.ok => (resp.body.error.k # "error" /\ resp.body.result.k # "absent")

\* A body with both an error object and a result gave the RPC failure.
C14_Witness ==
    /\ GoodEnvelope
    /\ resp.body.error.k = "error"
    /\ resp.body.result.k = "other"
    /\ op.ty = "Value"
    /\ ~Outcome.ok /\ Outcome.err[1] = "RPC error: "

\* The target type R can be deserialized from the JSON value (Value takes
\* any value, null included; AccountsResponse an accounts object).
Accepts(ty, value) == ty = "Value" \/ value.k = "accounts"

\* C15: with a result member present and no error, the attempt succeeds if
\* the payload deserializes into the target type and fails with the "Result
\* decode error" otherwise; the missing-result error is not returned, a
\* null payload included.
C15_PresentResultDecides ==
    (GoodEnvelope /\ resp.body.error.k = "absent" /\ resp.body.result.k # "absent") =>
        /\ Outcome.ok <=> Accepts(op.ty, resp.body.result)
        /\ ~Accepts(op.ty, resp.body.result) =>
              (~Outcome.ok /\ Outcome.err[1] = "Result decode error: ")
        /\ Outcome # Err(<<"No result in RPC response">>)

\* The messages call and discovery build.
CallErrorKinds ==
    {"Request error: ", "Unexpected status code: ", "Decode error: ", "RPC error: ",
     "Result decode error: ", "No result in RPC response", "No nodes available"}
DiscoveryErrorKinds ==
    {"Error fetching account: ", "Account ", "Error parsing JSON metadata: ",
     "No nodes found in account metadata", "Error parsing nodes: "}

\* x is a returned Ok, or a returned Err with one of the messages of kinds.
ProperResult(x, kinds) ==
    \/ x.ok /\ x.err = <<>>
    \/ ~x.ok /\ x.err # <<>> /\ x.err[1] \in kinds

\* C16: whatever the nodes answer, an operation that has started can take
\* its next step, and what call, get_nodes_from_account and
\* update_nodes_from_account return is an Ok or an Err with a message: no
\* step panics.
C16_NeverPanics ==
    /\ (InCall /\ pc \in {"loop", "wait", "called"}) =>
          ENABLED (\/ Send
                   \/ \E r \in Responses : Recv(r)
                   \/ Exhausted
                   \/ CallReturn \/ GetReturn \/ UpdateReturn)
    /\ Returned => ProperResult(call_ret, CallErrorKinds)
    /\ (pc = "done" /\ InCall) =>
          ProperResult(ret, IF op.name = "call" THEN CallErrorKinds
                            ELSE DiscoveryErrorKinds)

\* update_nodes_from_account returned an Err for metadata that is not JSON,
\* after a first node had failed.
C16_Witness ==
    /\ pc = "done" /\ op.name = "update_nodes_from_account"
    /\ Len(log) = 2
    /\ ~ret.ok /\ ret.err[1] = "Error parsing JSON metadata: "

\* C17: a request written to its wire form and read back has the method,
\* params and id it had, and the jsonrpc tag "2.0".
C17_RequestRoundTrip ==
    rt.stage = "decoded" =>
        /\ rt.back.ok
        /\ rt.back.val.method = rt.req.method
        /\ rt.back.val.params = rt.req.params
        /\ rt.back.val.id = rt.req.id
        /\ rt.back.val.jsonrpc = Str20

\* A method with a quote in it, unit params and a two-digit id came back.
C17_Witness ==
    /\ rt.stage = "decoded"
    /\ rt.req.method = <<"a", "\"", "b">>
    /\ rt.req.params.ty = "unit"
    /\ rt.req.id = 10
    /\ rt.wire.members[2].val.text = <<"a", "\\", "\"", "b">>
    /\ rt.back = Ok(rt.req)

\* C18: an operation that begins with an empty active sequence leaves it
\* empty unless it is a set_nodes given a candidate that is a URL and not a
\* failing key; call, get_nodes_from_account and update_nodes_from_account
\* then make no attempt and return Err.
C18_EmptyStaysEmpty ==
    Len(pre.nodes) = 0 =>
        /\ Len(nodes) > 0 =>
              /\ op.name = "set_nodes"
              /\ \E k \in 1..Len(op.cands) :
                    UrlParseOk(op.cands[k]) /\ op.cands[k] \notin DOMAIN op.failing
        /\ InCall =>
              /\ pc # "wait" /\ log = <<>> /\ resp = NoResp
              /\ Len(nodes) = 0
              /\ pc = "done" =>
                    /\ ~ret.ok
                    /\ ret.err = (IF op.name = "call" THEN <<>> ELSE <<"Error fetching account: ">>)
                                 \o <<"No nodes available">>

\* update_nodes_from_account ran on an empty active sequence and failed
\* without an attempt.
C18_Witness ==
    /\ pc = "done" /\ op.name = "update_nodes_from_account"
    /\ Len(pre.nodes) = 0 /\ Len(nodes) = 0
    /\ log = <<>>
    /\ ~ret.ok

\* The positions of the attempts that yielded a valid result.
OkPositions == {k \in 1..Len(log) : log[k].st = "ok"}

\* C19: an operation makes at most one attempt per position of the active
\* sequence; when its call has returned, the attempts number the position
\* of the first success, or the length of the sequence when all failed.
\* This holds of update_nodes_from_account as of call: it makes one call.
C19_BoundedAttempts ==
    /\ Len(log) <= Len(pre.nodes)
    /\ \A j \in 1..Len(log) : \A k \in 1..Len(log) :
          log[j].idx = log[k].idx => j = k
    /\ Returned =>
          Len(log) = IF OkPositions # {}
                     THEN CHOOSE k \in OkPositions : \A h \in OkPositions : k <= h
                     ELSE Len(pre.nodes)

\* A list holding the same endpoint twice failed twice, under
\* update_nodes_from_account.
C19_Witness ==
    /\ pc = "done" /\ op.name = "update_nodes_from_account"
    /\ nodes = <<"https://a", "https://a">>
    /\ Len(log) = 2 /\ AllFailed
    /\ log[1].node = log[2].node

\* reg is what set_nodes(cands, failing) installs, said without reference
\* to the registry it is applied to.
Installed(reg, cands, failing) ==
    /\ IsOrderedFilter(reg.nodes, cands, failing)
    /\ reg.failing_nodes = failing

\* C20: the registry after set_nodes(c, f) is determined by (c, f) alone;
\* set_nodes(c, f) applied to a registry that set_nodes(c, f) installed
\* leaves it as it is; and so does set_nodes given the client's own nodes
\* and failing_nodes.
C20_SetNodesIdempotent ==
    (pc = "done" /\ op.name = "set_nodes") =>
        /\ Installed(Registry, op.cands, op.failing)
        /\ Installed(pre, op.cands, op.failing) => Registry = pre
        /\ (op.cands = pre.nodes /\ op.failing = pre.failing_nodes) => Registry = pre

\* set_nodes was given the client's own two nodes and failing map.
C20_Witness ==
    /\ pc = "done" /\ op.name = "set_nodes"
    /\ op.cands = pre.nodes /\ op.failing = pre.failing_nodes
    /\ Len(nodes) = 2
    /\ DOMAIN failing_nodes # {}
    /\ Registry = pre

====
